---- MODULE Spec2Model ----
(***************************************************************************)
(* A model of robotlib.nav.astar: the A* engine (AStar), its open set      *)
(* (_OpenSet over queue.PriorityQueue), the path record (NavPath) and the  *)
(* bidirectional engine (BidirAStar).                                      *)
(*                                                                         *)
(* Nodes are the integers 1..NumNodes, costs and heuristic values are      *)
(* non-negative integers.  A caller-supplied callable that raises is a     *)
(* heuristic value Raise, or a Raise marker in the iterable returned by    *)
(* neighbor_func.                                                          *)
(***************************************************************************)
EXTENDS Integers, Sequences, FiniteSets, TLC

\* ------------------------------------------------------------------ bounds
NumNodes == 4
MaxStepsBound == 2
MaxCostBound == 3
HMax == 2
GridRows == 3
GridCols == 3
MaxObstacles == 2
StepsCap == 12    \* no get_path call of the model takes as many steps
RuntimeLimit_limit == 1    \* a RuntimeLimit expires after this many clock ticks

\* ------------------------------------------------------- program constants
Inf == 1000000    \* math.inf: above every finite cost, priority and step count
None == -2        \* None, or an attribute not assigned yet
Raise == -1       \* the callable raises instead of returning a value

Nodes == 1..NumNodes

\* ------------------------------------------------------------------ utils
or_default(item, default) == IF item = None THEN default ELSE item

Last(s) == s[Len(s)]

RECURSIVE reversed(_)
reversed(s) == IF s = <<>> THEN <<>> ELSE Append(reversed(Tail(s)), Head(s))

\* DictWithDefault.__getitem__: the stored value, or the default for a missing key
DictWithDefault_getitem(d, key, default) ==
    IF key \in DOMAIN d THEN d[key] ELSE default

\* dict.__setitem__
setitem(d, key, value) ==
    [k \in (DOMAIN d) \cup {key} |-> IF k = key THEN value ELSE d[k]]

EmptyDict == [k \in {} |-> 0]

\* PrioritizedItem.__lt__: only the priority is compared
PrioritizedItem_lt(a, b) == a.priority < b.priority

\* ------------------------------------------------- queue.PriorityQueue (heapq)
\* Positions are 0-based as in heapq; the sequence holding the heap is 1-based.
RECURSIVE siftdown(_, _, _, _)
siftdown(heap, startpos, pos, newitem) ==
    IF pos > startpos
    THEN LET parentpos == (pos - 1) \div 2
             parent == heap[parentpos + 1]
         IN  IF PrioritizedItem_lt(newitem, parent)
             THEN siftdown([heap EXCEPT ![pos + 1] = parent], startpos, parentpos, newitem)
             ELSE [heap EXCEPT ![pos + 1] = newitem]
    ELSE [heap EXCEPT ![pos + 1] = newitem]

RECURSIVE siftup(_, _, _)
siftup(heap, pos, newitem) ==
    LET endpos == Len(heap)
        childpos == 2 * pos + 1
        rightpos == childpos + 1
    IN  IF childpos < endpos
        THEN LET c == IF rightpos < endpos
                         /\ ~PrioritizedItem_lt(heap[childpos + 1], heap[rightpos + 1])
                      THEN rightpos ELSE childpos
             IN  siftup([heap EXCEPT ![pos + 1] = heap[c + 1]], c, newitem)
        ELSE siftdown([heap EXCEPT ![pos + 1] = newitem], 0, pos, newitem)

\* PriorityQueue.put
heappush(heap, item) == siftdown(Append(heap, item), 0, Len(heap), item)

\* PriorityQueue.get_nowait on a non-empty queue: the item and the remaining heap
heappop(heap) ==
    LET lastelt == heap[Len(heap)]
        rest == SubSeq(heap, 1, Len(heap) - 1)
    IN  IF rest # <<>>
        THEN [returnitem |-> rest[1],
              heap |-> siftup([rest EXCEPT ![1] = lastelt], 0, lastelt)]
        ELSE [returnitem |-> lastelt, heap |-> <<>>]

\* ---------------------------------------------------------------- _OpenSet
OpenSet_init == [heap |-> <<>>, set |-> {}]

\* mutant: the item is queued even when it is in the open set
add_always(open_set, item, f_score) ==
    [heap |-> heappush(open_set.heap, [priority |-> f_score, item |-> item]),
     set |-> open_set.set \cup {item}]

add_if_not_in(open_set, item, f_score) ==
    IF item \notin open_set.set
    THEN [heap |-> heappush(open_set.heap, [priority |-> f_score, item |-> item]),
          set |-> open_set.set \cup {item}]
    ELSE open_set

OpenSet_clear(open_set) == [heap |-> <<>>, set |-> {}]

\* mutant: pop() returns the first item and leaves it in the open set
OpenSet_pop_keeps_item(open_set) ==
    [item |-> open_set.heap[1].item, open_set |-> open_set]

\* the popped item and the open set without it
OpenSet_pop(open_set) ==
    LET got == heappop(open_set.heap)
        item == got.returnitem.item
    IN  [item |-> item,
         open_set |-> [heap |-> got.heap, set |-> open_set.set \ {item}]]

is_empty(open_set) == open_set.set = {}

\* ----------------------------------------------------------------- NavPath
NavPath(nodes, cum_costs, goal) ==
    [nodes |-> nodes,
     cum_costs |-> cum_costs,
     goal |-> goal,
     is_complete |-> (Last(nodes) = goal),
     inc_costs |-> [i \in 1..Len(cum_costs) |->
                       IF i = 1 THEN 0 ELSE cum_costs[i] - cum_costs[i - 1]],
     total_cost |-> Last(cum_costs)]

NoPath == [nodes |-> <<>>, cum_costs |-> <<>>, goal |-> None,
           is_complete |-> FALSE, inc_costs |-> <<>>, total_cost |-> 0]

nodes_without_end(path) == SubSeq(path.nodes, 1, Len(path.nodes) - 1)

\* ------------------------------------------------------------------- AStar
NoStats == [nodes_evaluated |-> 0]
NoDist == <<0, 0>>

\* AStar.__init__; max_steps and max_cost are None or a number
AStar_init(neighbor_func_, heuristic_, max_steps_, max_cost_) ==
    [neighbor_func |-> neighbor_func_,
     heuristic |-> heuristic_,
     max_steps |-> or_default(max_steps_, Inf),
     max_cost |-> or_default(max_cost_, Inf),
     stats |-> NoStats,
     goal |-> None,
     open_set |-> OpenSet_init,
     g_scores |-> EmptyDict,
     closest |-> None,
     closest_dist |-> NoDist,
     came_from |-> EmptyDict,
     current |-> None]

g_scores_get(e, node) == DictWithDefault_getitem(e.g_scores, node, Inf)

\* mutant: the pairs are compared by g-score first
TupleLess_by_cost_first(a, b) == a[2] < b[2] \/ (a[2] = b[2] /\ a[1] < b[1])

\* tuple comparison a < b of two (heuristic, g-score) pairs
TupleLess(a, b) == a[1] < b[1] \/ (a[1] = b[1] /\ a[2] < b[2])

\* mutant: _clear forgets the predecessor map
AStar_clear_keeps_came_from(e) ==
    [e EXCEPT !.open_set = OpenSet_clear(e.open_set),
              !.g_scores = EmptyDict]

AStar_clear(e) ==
    [e EXCEPT !.open_set = OpenSet_clear(e.open_set),
              !.g_scores = EmptyDict,
              !.came_from = EmptyDict]

\* the heuristic call of _setup raises
setup_raises(e, start, goal) == e.heuristic[start][goal] = Raise

\* mutant: _setup does not clear what an earlier call left behind
AStar_setup_no_clear(e, start, goal) ==
    LET s == [e EXCEPT !.stats = [nodes_evaluated |-> 0],
                       !.goal = goal,
                       !.open_set = add_if_not_in(e.open_set, start, 0),
                       !.g_scores = setitem(e.g_scores, start, 0),
                       !.closest = start]
    IN  IF setup_raises(e, start, goal)
        THEN s
        ELSE [s EXCEPT !.closest_dist = <<e.heuristic[start][goal], 0>>]

\* mutant: _setup leaves the counter of the call before as it is
AStar_setup_keeps_stats(e, start, goal) ==
    LET c == AStar_clear(e)
        s == [c EXCEPT !.goal = goal,
                       !.open_set = add_if_not_in(c.open_set, start, 0),
                       !.g_scores = setitem(c.g_scores, start, 0),
                       !.closest = start]
    IN  IF setup_raises(e, start, goal)
        THEN s
        ELSE [s EXCEPT !.closest_dist = <<e.heuristic[start][goal], 0>>]

\* AStar._setup; when the heuristic raises, the assignments before it stand
AStar_setup(e, start, goal) ==
    LET c == AStar_clear(e)
        s == [c EXCEPT !.stats = [nodes_evaluated |-> 0],
                       !.goal = goal,
                       !.open_set = add_if_not_in(c.open_set, start, 0),
                       !.g_scores = setitem(c.g_scores, start, 0),
                       !.closest = start]
    IN  IF setup_raises(e, start, goal)
        THEN s
        ELSE [s EXCEPT !.closest_dist = <<e.heuristic[start][goal], 0>>]

\* mutant: the search goes on after the goal was popped
is_searching_until_empty(e) == ~is_empty(e.open_set)

is_searching(e) == e.closest # e.goal /\ ~is_empty(e.open_set)

\* mutant: the bound is never applied
cost_is_never_too_high(e, cost) == FALSE

cost_is_too_high(e, cost) == cost > e.max_cost

\* the heuristic call of line 87 raises for the node pop() is about to return
step_pop_raises(e) ==
    LET current == OpenSet_pop(e.open_set).item
    IN  current # e.goal /\ e.heuristic[current][e.goal] = Raise

\* AStar._step up to the neighbour loop (lines 78-90)
step_pop(e) ==
    LET got == OpenSet_pop(e.open_set)
        current == got.item
        p == [e EXCEPT !.open_set = got.open_set,
                       !.current = current,
                       !.stats = [nodes_evaluated |-> e.stats.nodes_evaluated + 1]]
    IN  IF current = e.goal
        THEN [p EXCEPT !.closest = current]
        ELSE IF e.heuristic[current][e.goal] = Raise
        THEN p
        ELSE LET current_dist == <<e.heuristic[current][e.goal], g_scores_get(p, current)>>
             IN  IF TupleLess(current_dist, p.closest_dist)
                 THEN [p EXCEPT !.closest = current, !.closest_dist = current_dist]
                 ELSE p

\* the iterable neighbor_func(current) that the loop of _step walks
step_neighbors(e) ==
    IF e.current = e.goal THEN <<>> ELSE e.neighbor_func[e.current]

\* the next item of the neighbour iterable is a raise of neighbor_func
yield_raises(pair) == pair[2] = Raise

\* the heuristic call of line 97 raises for this neighbour
relax_raises(e, neighbor, cost) ==
    /\ ~(g_scores_get(e, e.current) + cost >= g_scores_get(e, neighbor))
    /\ e.heuristic[neighbor][e.goal] = Raise

\* mutant: the candidate is not compared with the neighbour's g-score
relax_always(e, neighbor, cost) ==
    LET g_score == g_scores_get(e, e.current) + cost
    IN  IF e.heuristic[neighbor][e.goal] = Raise
        THEN e
        ELSE LET f_score == g_score + e.heuristic[neighbor][e.goal]
             IN  IF cost_is_too_high(e, f_score)
                 THEN e
                 ELSE [e EXCEPT !.came_from = setitem(e.came_from, neighbor, e.current),
                                !.g_scores = setitem(e.g_scores, neighbor, g_score),
                                !.open_set = add_if_not_in(e.open_set, neighbor, f_score)]

\* mutant: a candidate equal to the neighbour's g-score is written as well
relax_on_equal(e, neighbor, cost) ==
    LET g_score == g_scores_get(e, e.current) + cost
    IN  IF g_score > g_scores_get(e, neighbor)
        THEN e
        ELSE IF e.heuristic[neighbor][e.goal] = Raise
        THEN e
        ELSE LET f_score == g_score + e.heuristic[neighbor][e.goal]
             IN  IF cost_is_too_high(e, f_score)
                 THEN e
                 ELSE [e EXCEPT !.came_from = setitem(e.came_from, neighbor, e.current),
                                !.g_scores = setitem(e.g_scores, neighbor, g_score),
                                !.open_set = add_if_not_in(e.open_set, neighbor, f_score)]

\* one pass of the neighbour loop of AStar._step (lines 93-104)
relax(e, neighbor, cost) ==
    LET g_score == g_scores_get(e, e.current) + cost
    IN  IF g_score >= g_scores_get(e, neighbor)
        THEN e
        ELSE IF e.heuristic[neighbor][e.goal] = Raise
        THEN e
        ELSE LET f_score == g_score + e.heuristic[neighbor][e.goal]
             IN  IF cost_is_too_high(e, f_score)
                 THEN e
                 ELSE [e EXCEPT !.came_from = setitem(e.came_from, neighbor, e.current),
                                !.g_scores = setitem(e.g_scores, neighbor, g_score),
                                !.open_set = add_if_not_in(e.open_set, neighbor, f_score)]

\* the neighbour loop of _step over the rest of the iterable; a raise ends it
RECURSIVE relax_all(_, _)
relax_all(e, pairs) ==
    IF pairs = <<>> THEN e
    ELSE IF yield_raises(Head(pairs)) \/ relax_raises(e, Head(pairs)[1], Head(pairs)[2])
    THEN e
    ELSE CHOOSE r \in {relax_all(relaxed, Tail(pairs)) :
                        relaxed \in {relax(e, Head(pairs)[1], Head(pairs)[2])}} : TRUE

\* AStar._step as one call
AStar_step(e) ==
    IF step_pop_raises(e) THEN step_pop(e)
    ELSE CHOOSE r \in {relax_all(p, step_neighbors(p)) : p \in {step_pop(e)}} : TRUE

\* AStar._build_path
RECURSIVE build_chain(_, _)
build_chain(e, current) ==
    IF current \in DOMAIN e.came_from
    THEN <<current>> \o build_chain(e, e.came_from[current])
    ELSE <<current>>

\* mutant: the path is built to the goal instead of to the node asked for
AStar_build_path_to_goal(e, to_node) ==
    LET chain == build_chain(e, e.goal)
        nodes == reversed(chain)
    IN  NavPath(nodes, [i \in 1..Len(nodes) |-> g_scores_get(e, nodes[i])], e.goal)

\* mutant: the chain is not reversed
AStar_build_path_not_reversed(e, to_node) ==
    LET nodes == build_chain(e, to_node)
    IN  NavPath(nodes, [i \in 1..Len(nodes) |-> g_scores_get(e, nodes[i])], e.goal)

AStar_build_path(e, to_node) ==
    LET chain == build_chain(e, to_node)
        nodes == reversed(chain)
    IN  NavPath(nodes, [i \in 1..Len(nodes) |-> g_scores_get(e, nodes[i])], e.goal)

\* ------------------------------------------------------ graphs, heuristics
\* neighbor_func of the graph given by a list of edges <<from, to, cost>>:
\* neighbor_func(n) yields the pairs <<to, cost>> of n's edges in list order
RECURSIVE pairs_of(_, _)
pairs_of(edges, n) ==
    IF edges = <<>> THEN <<>>
    ELSE IF Head(edges)[1] = n
    THEN <<<<Head(edges)[2], Head(edges)[3]>>>> \o pairs_of(Tail(edges), n)
    ELSE pairs_of(Tail(edges), n)

GraphOf(edges) == [n \in Nodes |-> pairs_of(edges, n)]

Undirected(edges) == edges \o [i \in 1..Len(edges) |-> <<edges[i][2], edges[i][1], edges[i][3]>>]

\* a dear direct edge 1->2 and a cheap detour 1->3->2, next to a direct edge to 4
Diamond == GraphOf(<< <<1, 2, 5>>, <<1, 3, 1>>, <<1, 4, 4>>, <<3, 2, 1>>, <<2, 4, 1>> >>)
\* 1 - 2 - 3 - 4, unit costs, both directions
Line == GraphOf(Undirected(<< <<1, 2, 1>>, <<2, 3, 1>>, <<3, 4, 1>> >>))
\* two components {1, 2} and {3, 4}
Split == GraphOf(Undirected(<< <<1, 2, 1>>, <<3, 4, 2>> >>))
\* a zero-cost cycle 1 -> 2 -> 3 -> 1 with a self-loop, and an exit 3 -> 4
ZeroCycle == GraphOf(<< <<1, 2, 0>>, <<2, 2, 0>>, <<2, 3, 0>>, <<3, 1, 0>>, <<3, 4, 2>> >>)
\* a 2 x 2 grid: 1 - 2, 1 - 3, 2 - 4, 3 - 4, both directions
Square == GraphOf(Undirected(<< <<1, 2, 1>>, <<1, 3, 2>>, <<2, 4, 2>>, <<3, 4, 1>> >>))
\* 2 is reached first for 2 and later through 3 for 1; one-way edges
Detour == GraphOf(<< <<1, 2, 2>>, <<1, 3, 1>>, <<3, 2, 0>>, <<2, 4, 1>>, <<4, 3, 1>> >>)

Graphs == {Diamond, Line, Split, ZeroCycle, Square, Detour}

Abs(x) == IF x < 0 THEN -x ELSE x

\* euclidean_heuristic on one-dimensional nodes: sqrt((a - b)^2)
euclidean_heuristic == [a \in Nodes |-> [b \in Nodes |-> Abs(a - b)]]
ZeroHeuristic == [a \in Nodes |-> [b \in Nodes |-> 0]]
\* HMax from node x to any other node, 0 elsewhere
Spike(x) == [a \in Nodes |-> [b \in Nodes |-> IF a = x /\ b # x THEN HMax ELSE 0]]

Heuristics == {euclidean_heuristic, ZeroHeuristic} \cup {Spike(x) : x \in Nodes}

MaxStepsValues == {None} \cup 0..MaxStepsBound
MaxCostValues == {None, MaxCostBound}

\* neighbor_func(n) yields its first k pairs and then raises
RaiseAfter(graph, n, k) ==
    LET m == IF k < Len(graph[n]) THEN k ELSE Len(graph[n])
    IN  [graph EXCEPT ![n] = SubSeq(graph[n], 1, m) \o << <<None, Raise>> >>]

FaultyGraphs == {RaiseAfter(graph, n, k) : graph \in {Line, Diamond}, n \in Nodes, k \in 0..1}

\* heuristic(x, _) raises
RaiseAt(h, x) == [a \in Nodes |-> [b \in Nodes |-> IF a = x THEN Raise ELSE h[a][b]]]

FaultyHeuristics == {RaiseAt(ZeroHeuristic, x) : x \in Nodes}

\* ------------------------------------------------ grid worlds of the tests
\* Cells are numbered row by row from 1; a world is its set of obstacle cells and
\* its diag_allowed flag.  Costs and distances on grids are in hundredths, rounded
\* down: enough to order and to tell apart every sum of a step count and a
\* straight-line distance that occurs on grids of this size.
Scale == 100

GridCells == 1..(GridRows * GridCols)
Row(cell) == (cell - 1) \div GridCols
Col(cell) == (cell - 1) % GridCols
Cell(location) == location[1] * GridCols + location[2] + 1

\* x ** 0.5 in hundredths for x = n
Sqrt(n) == CHOOSE r \in 0..(Scale * (n + 1)) :
              r * r <= Scale * Scale * n /\ (r + 1) * (r + 1) > Scale * Scale * n

\* euclidean_heuristic on grid cells
grid_heuristic ==
    [a \in GridCells |-> [b \in GridCells |->
        Sqrt((Row(a) - Row(b)) * (Row(a) - Row(b)) + (Col(a) - Col(b)) * (Col(a) - Col(b)))]]

\* GridWorld._generate_neighbors: itertools.product of the diffs, without (0, 0)
Diffs == << <<-1, -1>>, <<-1, 0>>, <<-1, 1>>, <<0, -1>>, <<0, 1>>, <<1, -1>>, <<1, 0>>, <<1, 1>> >>

generate_neighbors(cell) ==
    [i \in 1..Len(Diffs) |-> <<Row(cell) + Diffs[i][1], Col(cell) + Diffs[i][2]>>]

\* ArrayGridWorld.contains
contains(location) ==
    location[1] \in 0..(GridRows - 1) /\ location[2] \in 0..(GridCols - 1)

\* mutant: obstacles do not block
is_open_everywhere(world_, location) == TRUE

\* ArrayGridWorld.is_open
is_open(world_, location) == Cell(location) \notin world_.obstacles

\* ArrayGridWorld.can_move
can_move(world_, cell, location) ==
    LET max_dist == IF world_.diag_allowed THEN Sqrt(2) ELSE Scale
    IN  grid_heuristic[cell][Cell(location)] <= max_dist

\* AStarTest.get_neighbors over GridWorld.get_neighbors: the open neighbours of a
\* cell inside the grid, each with the heuristic as its cost
get_neighbors(world_, cell) ==
    LET Passes(location) == /\ contains(location)
                            /\ is_open(world_, location)
                            /\ can_move(world_, cell, location)
        found == SelectSeq(generate_neighbors(cell), Passes)
    IN  [i \in 1..Len(found) |-> <<Cell(found[i]), grid_heuristic[cell][Cell(found[i])]>>]

GridWorld(obstacles_, diag_allowed_) ==
    [obstacles |-> obstacles_, diag_allowed |-> diag_allowed_]

\* no grid: the engine searches one of the Graphs
NoWorld == GridWorld({}, FALSE)

\* the grid [[0, 0, 0], [0, 1, 0], [0, 1, 0]] of test_small__diagonal_*, and the
\* grid [[0, 1, 0], [0, 1, 0], [0, 1, 0]] of test_small__no_path
TestObstacles == {Cell(<<1, 1>>), Cell(<<2, 1>>)}
NoPathObstacles == {Cell(<<0, 1>>), Cell(<<1, 1>>), Cell(<<2, 1>>)}

\* every 4-connected grid with few obstacles, and the tests' grids with and without
\* diagonals
GridWorlds ==
    {GridWorld(o, FALSE) : o \in {x \in SUBSET GridCells : Cardinality(x) <= MaxObstacles}}
    \cup {GridWorld(o, diag) : o \in {TestObstacles, NoPathObstacles}, diag \in BOOLEAN}

\* the engine the tests construct: AStar(self.get_neighbors)
GridAStar(world_) ==
    AStar_init([cell \in GridCells |-> get_neighbors(world_, cell)], grid_heuristic, None, None)

\* ---------------------------------------------------------------- BidirAStar
reverse_heuristic(heuristic_) == [a \in Nodes |-> [b \in Nodes |-> heuristic_[b][a]]]

\* BidirAStar.__init__
BidirAStar_init(neighbor_func_, heuristic_, max_steps_, max_cost_, stop_if_no_path_) ==
    [max_steps |-> or_default(max_steps_, Inf),
     stop_if_no_path |-> stop_if_no_path_,
     stats |-> [nodes_evaluated |-> None],
     goal |-> None,
     from_start |-> AStar_init(neighbor_func_, heuristic_, None, max_cost_),
     from_goal |-> AStar_init(neighbor_func_, reverse_heuristic(heuristic_), None, max_cost_),
     middle_node |-> None]

\* BidirAStar._setup
BidirAStar_setup(b, start_, goal_) ==
    [b EXCEPT !.stats = [nodes_evaluated |-> None],
              !.goal = goal_,
              !.from_start = AStar_setup(b.from_start, start_, goal_),
              !.from_goal = AStar_setup(b.from_goal, goal_, start_),
              !.middle_node = None]

\* BidirAStar._clear
BidirAStar_clear(b) ==
    [b EXCEPT !.from_start = AStar_clear(b.from_start),
              !.from_goal = AStar_clear(b.from_goal)]

\* lines 209-211: the sum of the two searches' counters
BidirAStar_stats(b) ==
    [nodes_evaluated |-> b.from_start.stats.nodes_evaluated
                         + b.from_goal.stats.nodes_evaluated]

\* mutant: the forward half keeps its end, so the middle node is spliced in twice
BidirAStar_build_path_keeps_end(b) ==
    IF b.middle_node = None
    THEN AStar_build_path(b.from_start, b.from_start.closest)
    ELSE LET from_start_to_middle == AStar_build_path(b.from_start, b.middle_node)
             from_goal_to_middle == AStar_build_path(b.from_goal, b.middle_node)
             full_path == from_start_to_middle.nodes \o reversed(from_goal_to_middle.nodes)
             cost_from_start_to_middle == Last(from_start_to_middle.cum_costs)
             cost_from_goal_to_middle == Last(from_goal_to_middle.cum_costs)
             goal_costs == from_goal_to_middle.cum_costs
             rest == reversed(SubSeq(goal_costs, 1, Len(goal_costs) - 1))
             cum_costs == from_start_to_middle.cum_costs
                          \o [i \in 1..Len(rest) |->
                                cost_from_start_to_middle + cost_from_goal_to_middle - rest[i]]
         IN  NavPath(full_path, cum_costs, b.goal)

\* mutant: the goal-side costs are not offset by the cost from start to the middle
BidirAStar_build_path_no_offset(b) ==
    IF b.middle_node = None
    THEN AStar_build_path(b.from_start, b.from_start.closest)
    ELSE LET from_start_to_middle == AStar_build_path(b.from_start, b.middle_node)
             from_goal_to_middle == AStar_build_path(b.from_goal, b.middle_node)
             full_path == nodes_without_end(from_start_to_middle)
                          \o reversed(from_goal_to_middle.nodes)
             cost_from_goal_to_middle == Last(from_goal_to_middle.cum_costs)
             goal_costs == from_goal_to_middle.cum_costs
             rest == reversed(SubSeq(goal_costs, 1, Len(goal_costs) - 1))
             cum_costs == from_start_to_middle.cum_costs
                          \o [i \in 1..Len(rest) |-> cost_from_goal_to_middle - rest[i]]
         IN  NavPath(full_path, cum_costs, b.goal)

\* mutant: without a middle node the path of the backward search is returned
BidirAStar_build_path_from_goal(b) ==
    IF b.middle_node = None
    THEN AStar_build_path(b.from_goal, b.from_goal.closest)
    ELSE BidirAStar_build_path_keeps_end(b)

\* BidirAStar._build_path
BidirAStar_build_path(b) ==
    IF b.middle_node = None
    THEN AStar_build_path(b.from_start, b.from_start.closest)
    ELSE LET from_start_to_middle == AStar_build_path(b.from_start, b.middle_node)
             from_goal_to_middle == AStar_build_path(b.from_goal, b.middle_node)
             full_path == nodes_without_end(from_start_to_middle)
                          \o reversed(from_goal_to_middle.nodes)
             cost_from_start_to_middle == Last(from_start_to_middle.cum_costs)
             cost_from_goal_to_middle == Last(from_goal_to_middle.cum_costs)
             goal_costs == from_goal_to_middle.cum_costs
             rest == reversed(SubSeq(goal_costs, 1, Len(goal_costs) - 1))
             cum_costs == from_start_to_middle.cum_costs
                          \o [i \in 1..Len(rest) |->
                                cost_from_start_to_middle + cost_from_goal_to_middle - rest[i]]
         IN  NavPath(full_path, cum_costs, b.goal)

\* ------------------------------------------------------------------- state
VARIABLES
    astar,      \* the AStar instance
    bidir,      \* the BidirAStar instance
    pc,         \* where the get_path call stands: "idle", "loop", "step", "back", "done"
    steps,      \* get_path's local steps
    pairs,      \* the rest of the iterable neighbor_func(current) in _step
    result,     \* the NavPath the last get_path call returned
    outcome,    \* of the last get_path call: "none", "running", "returned", "raised"
    start,      \* the start argument of the last get_path call
    cancelled,  \* run_limit was consulted in the last call and answered false
    reused,     \* the instance had been used before the last get_path call
    popped,     \* the pairs <<node, g-score>> pop() returned in the last call, in order;
                \* BidirAStar adds the direction of the search that popped
    world,      \* the grid world behind neighbor_func, NoWorld when it is a graph
    elapsed_time \* the time a RuntimeLimit has been running, in clock ticks

vars == <<astar, bidir, pc, steps, pairs, result, outcome, start, cancelled, reused, popped,
          world, elapsed_time>>

\* the instance a specification does not use
NoAStar == AStar_init(GraphOf(<<>>), ZeroHeuristic, None, None)
NoBidir == BidirAStar_init(GraphOf(<<>>), ZeroHeuristic, None, None, FALSE)

\* the engines the program constructs: every graph and heuristic with every bound,
\* and the raising callables without bounds
AStarInstances ==
    {AStar_init(nf, h, ms, mc) :
        nf \in Graphs, h \in Heuristics, ms \in MaxStepsValues, mc \in MaxCostValues}
    \cup {AStar_init(nf, h, None, None) : nf \in FaultyGraphs, h \in Heuristics}
    \cup {AStar_init(nf, h, None, None) : nf \in Graphs \cup FaultyGraphs, h \in FaultyHeuristics}

BidirInstances ==
    {BidirAStar_init(nf, h, ms, mc, stop) :
        nf \in Graphs, h \in {euclidean_heuristic, ZeroHeuristic, Spike(2)}, ms \in MaxStepsValues, mc \in MaxCostValues,
        stop \in BOOLEAN}

InitCall ==
    /\ pc = "idle"
    /\ steps = 0
    /\ pairs = <<>>
    /\ result = NoPath
    /\ outcome = "none"
    /\ start = None
    /\ cancelled = FALSE
    /\ reused = FALSE
    /\ popped = <<>>
    /\ elapsed_time = 0

Init ==
    /\ astar \in AStarInstances
    /\ bidir = NoBidir
    /\ world = NoWorld
    /\ InitCall

\* an exception leaves AStar.get_path through "finally: self._clear()"
Raised(e) ==
    /\ astar' = AStar_clear(e)
    /\ pc' = "idle"
    /\ outcome' = "raised"
    /\ pairs' = <<>>

\* AStar.get_path up to the loop: _setup runs before the try block
AStar_get_path(start_, goal_) ==
    /\ pc = "idle"
    /\ start' = start_
    /\ reused' = (outcome # "none")
    /\ steps' = 0
    /\ result' = NoPath
    /\ cancelled' = FALSE
    /\ popped' = <<>>
    /\ pairs' = <<>>
    /\ astar' = AStar_setup(astar, start_, goal_)
    /\ IF setup_raises(astar, start_, goal_)
       THEN pc' = "idle" /\ outcome' = "raised"
       ELSE pc' = "loop" /\ outcome' = "running"
    /\ UNCHANGED <<bidir, world, elapsed_time>>

\* what the pop() of the next _step of e returns, with the g-score the node has then
popped_pair(e) ==
    LET current == OpenSet_pop(e.open_set).item
    IN  <<current, g_scores_get(e, current)>>

\* mutant: the loop does not consult run_limit
AStar_while_ignores_run_limit(e, steps_, run_limit) ==
    is_searching(e) /\ steps_ < e.max_steps

\* mutant: the step bound is tested with <= instead of <
AStar_while_off_by_one(e, steps_, run_limit) ==
    is_searching(e) /\ steps_ <= e.max_steps /\ run_limit

\* the while condition of AStar.get_path (line 55); run_limit is bool(run_limit)
AStar_while(e, steps_, run_limit) ==
    is_searching(e) /\ steps_ < e.max_steps /\ run_limit

\* one test of the while condition of AStar.get_path, and when it holds the body up
\* to the neighbour loop of _step
AStar_loop(keep_running) ==
    /\ pc = "loop"
    /\ UNCHANGED <<start, reused, result, bidir, world, elapsed_time>>
    /\ cancelled' = (is_searching(astar) /\ steps < astar.max_steps /\ ~keep_running)
    /\ IF AStar_while(astar, steps, keep_running)
       THEN /\ steps' = steps + 1
            /\ popped' = Append(popped, popped_pair(astar))
            /\ IF step_pop_raises(astar)
               THEN Raised(step_pop(astar))
               ELSE /\ astar' = step_pop(astar)
                    /\ pairs' = step_neighbors(astar')
                    /\ pc' = IF pairs' = <<>> THEN "loop" ELSE "step"
                    /\ UNCHANGED outcome
       ELSE /\ pc' = "done"
            /\ UNCHANGED <<astar, steps, pairs, outcome, popped>>

\* one pass of the neighbour loop of _step
AStar_relax ==
    /\ pc = "step"
    /\ UNCHANGED <<start, reused, steps, result, cancelled, bidir, popped, world, elapsed_time>>
    /\ LET neighbor == Head(pairs)[1]
           cost == Head(pairs)[2]
       IN  IF yield_raises(Head(pairs)) \/ relax_raises(astar, neighbor, cost)
           THEN Raised(astar)
           ELSE /\ astar' = relax(astar, neighbor, cost)
                /\ pairs' = Tail(pairs)
                /\ pc' = IF pairs' = <<>> THEN "loop" ELSE "step"
                /\ UNCHANGED outcome

\* the end of AStar.get_path: return self._build_path(self._closest), then the
\* finally block
AStar_return ==
    /\ pc = "done"
    /\ result' = AStar_build_path(astar, astar.closest)
    /\ astar' = AStar_clear(astar)
    /\ pc' = "idle"
    /\ outcome' = "returned"
    /\ UNCHANGED <<start, reused, steps, pairs, cancelled, bidir, popped, world, elapsed_time>>

Next ==
    \/ \E s \in Nodes, g \in Nodes : AStar_get_path(s, g)
    \/ \E keep_running \in BOOLEAN : AStar_loop(keep_running)
    \/ AStar_relax
    \/ AStar_return

Spec == Init /\ [][Next]_vars

\* ------------------------------------------------------ BidirAStar.get_path
InitBidir ==
    /\ astar = NoAStar
    /\ bidir \in BidirInstances
    /\ world = NoWorld
    /\ InitCall

\* BidirAStar.get_path up to the loop
BidirAStar_get_path(start_, goal_) ==
    /\ pc = "idle"
    /\ start' = start_
    /\ reused' = (outcome # "none")
    /\ steps' = 0
    /\ result' = NoPath
    /\ cancelled' = FALSE
    /\ popped' = <<>>
    /\ bidir' = BidirAStar_setup(bidir, start_, goal_)
    /\ pc' = "loop"
    /\ outcome' = "running"
    /\ UNCHANGED <<astar, pairs, world, elapsed_time>>

\* pop() on an empty open set: get_nowait raises, and the exception leaves
\* BidirAStar.get_path through "finally: self._clear()"
BidirRaised ==
    /\ bidir' = BidirAStar_clear(bidir)
    /\ pc' = "idle"
    /\ outcome' = "raised"
    /\ UNCHANGED <<steps, popped>>

\* the while condition of BidirAStar.get_path (line 184)
BidirAStar_while(b, steps_, run_limit) ==
    run_limit /\ steps_ < b.max_steps

\* what the pop() of the next _step of e returns, with the g-score the node has
\* then and the search that pops it
popped_by(e, direction) == popped_pair(e) \o <<direction>>

\* mutant: the two searches are never found to have met
met_never(current, other) == FALSE

\* lines 189 and 204: the node just popped has a g-score in the opposite search
met(current, other) == current \in DOMAIN other.g_scores

\* mutant: the backward half runs although the forward search has ended
always_backward(stepped) == "back"

\* mutant: the backward half is skipped while the forward search goes on
skip_backward(stepped) == IF is_searching(stepped) THEN "loop" ELSE "done"

\* lines 192-193: break when the forward search is not searching any more
after_forward(stepped) == IF is_searching(stepped) THEN "back" ELSE "done"

\* one test of the while condition of BidirAStar.get_path, and when it holds the
\* forward half of the body (lines 186-193)
BidirAStar_forward(keep_running) ==
    /\ pc = "loop"
    /\ UNCHANGED <<astar, pairs, start, reused, result, world, elapsed_time>>
    /\ IF BidirAStar_while(bidir, steps, keep_running)
       THEN /\ UNCHANGED cancelled
            /\ IF is_empty(bidir.from_start.open_set)
               THEN BidirRaised
               ELSE \E stepped \in {AStar_step(bidir.from_start)} :
                    LET current == stepped.current
                    IN  /\ steps' = steps + 1
                        /\ popped' = Append(popped, popped_by(bidir.from_start, "forward"))
                        /\ UNCHANGED outcome
                        /\ IF met(current, bidir.from_goal)
                           THEN /\ bidir' = [bidir EXCEPT !.from_start = stepped,
                                                          !.middle_node = current]
                                /\ pc' = "done"
                           ELSE /\ bidir' = [bidir EXCEPT !.from_start = stepped]
                                /\ pc' = after_forward(stepped)
       ELSE /\ cancelled' = ~keep_running
            /\ pc' = "done"
            /\ UNCHANGED <<bidir, steps, outcome, popped>>

\* mutant: stop_if_no_path is not looked at
always_continue(b) == "loop"

\* lines 196-199: break or continue once the backward search is not searching
break_or_continue(b) == IF b.stop_if_no_path THEN "done" ELSE "loop"

\* the backward half of the loop body (lines 195-207)
BidirAStar_backward ==
    /\ pc = "back"
    /\ UNCHANGED <<astar, pairs, start, reused, result, cancelled, world, elapsed_time>>
    /\ IF ~is_searching(bidir.from_goal)
       THEN /\ pc' = break_or_continue(bidir)
            /\ UNCHANGED <<bidir, steps, outcome, popped>>
       ELSE \E stepped \in {AStar_step(bidir.from_goal)} :
            LET current == stepped.current
            IN  /\ steps' = steps + 1
                /\ popped' = Append(popped, popped_by(bidir.from_goal, "backward"))
                /\ UNCHANGED outcome
                /\ IF met(current, bidir.from_start)
                   THEN /\ bidir' = [bidir EXCEPT !.from_goal = stepped,
                                                  !.middle_node = current]
                        /\ pc' = "done"
                   ELSE /\ bidir' = [bidir EXCEPT !.from_goal = stepped]
                        /\ pc' = "loop"

\* the end of BidirAStar.get_path: the stats, return self._build_path(), then the
\* finally block
BidirAStar_return ==
    /\ pc = "done"
    /\ result' = BidirAStar_build_path(bidir)
    /\ bidir' = BidirAStar_clear([bidir EXCEPT !.stats = BidirAStar_stats(bidir)])
    /\ pc' = "idle"
    /\ outcome' = "returned"
    /\ UNCHANGED <<astar, pairs, start, reused, steps, cancelled, popped, world, elapsed_time>>

NextBidir ==
    \/ \E s \in Nodes, g \in Nodes : BidirAStar_get_path(s, g)
    \/ \E keep_running \in BOOLEAN : BidirAStar_forward(keep_running)
    \/ BidirAStar_backward
    \/ BidirAStar_return

SpecBidir == InitBidir /\ [][NextBidir]_vars

\* --------------------------------------------------- either kind of engine
InitBoth == Init \/ InitBidir

NextBoth ==
    \/ bidir = NoBidir /\ Next
    \/ astar = NoAStar /\ NextBidir

SpecBoth == InitBoth /\ [][NextBoth]_vars

\* ------------------------------------- engines constructed with any max_steps
\* negative numbers for max_steps, below the codes of None and Raise
NegativeMaxSteps == {None - n : n \in 1..(MaxStepsBound + 1)}

\* __init__ stores the max_steps it is given
InitAnyMaxSteps ==
    /\ \/ /\ astar \in AStarInstances
                       \cup {AStar_init(nf, h, ms, None) :
                               nf \in Graphs, h \in Heuristics, ms \in NegativeMaxSteps}
          /\ bidir = NoBidir
       \/ /\ astar = NoAStar
          /\ bidir \in BidirInstances
                       \cup {BidirAStar_init(nf, euclidean_heuristic, ms, None, stop) :
                               nf \in Graphs, ms \in NegativeMaxSteps, stop \in BOOLEAN}
    /\ world = NoWorld
    /\ InitCall

SpecAnyMaxSteps == InitAnyMaxSteps /\ [][NextBoth]_vars

\* ------------------------------------------- AStar on the tests' grid worlds
InitGrid ==
    /\ world \in GridWorlds
    /\ astar = GridAStar(world)
    /\ bidir = NoBidir
    /\ InitCall

\* one get_path call per constructed engine, between cells of the grid
NextGrid ==
    \/ outcome = "none" /\ \E s \in GridCells, g \in GridCells : AStar_get_path(s, g)
    \/ AStar_loop(TRUE)
    \/ AStar_relax
    \/ AStar_return

SpecGrid == InitGrid /\ [][NextGrid]_vars

\* ------------------------------------ BidirAStar.get_path under a RuntimeLimit
\* RuntimeLimit.keep_running: the elapsed time is below the limit
RuntimeLimit_keep_running == elapsed_time < RuntimeLimit_limit

\* the clock of the RuntimeLimit advances, at any point of the program
Tick ==
    /\ elapsed_time < RuntimeLimit_limit
    /\ elapsed_time' = elapsed_time + 1
    /\ UNCHANGED <<astar, bidir, pc, steps, pairs, result, outcome, start, cancelled,
                   reused, popped, world>>

\* get_path is called with run_limit = the RuntimeLimit, whose answer at each test
\* of the while condition is the one its clock gives then
NextRunLimit ==
    \/ \E s \in Nodes, g \in Nodes : BidirAStar_get_path(s, g)
    \/ BidirAStar_forward(RuntimeLimit_keep_running)
    \/ BidirAStar_backward
    \/ BidirAStar_return
    \/ Tick

SpecRunLimit == InitBidir /\ [][NextRunLimit]_vars

\* ------------------------------- get_path without bounds, running to its end
\* a ring 1 - 2 - 3 - 4 - 1 with two zero-cost edges, both directions
Ring == GraphOf(Undirected(<< <<1, 2, 0>>, <<2, 3, 1>>, <<3, 4, 0>>, <<4, 1, 2>> >>))
\* every two nodes joined by an edge, both directions
Clique == GraphOf(Undirected(<< <<1, 2, 2>>, <<1, 3, 1>>, <<1, 4, 2>>, <<2, 3, 0>>,
                               <<2, 4, 1>>, <<3, 4, 2>> >>))

UnboundedGraphs == Graphs \cup {Ring, Clique}

\* engines constructed without max_steps and without max_cost
InitUnbounded ==
    /\ \/ /\ astar \in {AStar_init(nf, h, None, None) :
                            nf \in UnboundedGraphs, h \in Heuristics}
          /\ bidir = NoBidir
       \/ /\ astar = NoAStar
          /\ bidir \in {BidirAStar_init(nf, h, None, None, stop) :
                            nf \in UnboundedGraphs, h \in Heuristics, stop \in BOOLEAN}
    /\ world = NoWorld
    /\ InitCall

\* get_path called without run_limit: or_default makes the predicate True.  The
\* guard on steps caps the counter.
NextUnbounded ==
    /\ steps < StepsCap
    /\ \/ bidir = NoBidir /\ \E s \in Nodes, g \in Nodes : AStar_get_path(s, g)
       \/ bidir = NoBidir /\ AStar_loop(TRUE)
       \/ bidir = NoBidir /\ AStar_relax
       \/ bidir = NoBidir /\ AStar_return
       \/ astar = NoAStar /\ \E s \in Nodes, g \in Nodes : BidirAStar_get_path(s, g)
       \/ astar = NoAStar /\ BidirAStar_forward(TRUE)
       \/ astar = NoAStar /\ BidirAStar_backward
       \/ astar = NoAStar /\ BidirAStar_return

\* a call that has begun keeps executing: the interpreter runs the loop of
\* get_path and the statements after it one after the other
SpecUnbounded == InitUnbounded /\ [][NextUnbounded]_vars /\ WF_vars(NextUnbounded)

\* ------------------------------ AStar.get_path towards a goal off the graph
\* a goal that is no node of the graph: neighbor_func is never asked about it
FarGoal == NumNodes + 1

\* a dear direct edge 1->3 and a cheap detour 1->2->3, then a free edge 3->4
Shortcut == GraphOf(<< <<1, 3, 2>>, <<1, 2, 1>>, <<2, 3, 0>>, <<3, 4, 0>> >>)

\* euclidean_heuristic and the zero heuristic with goals on and off the graph
euclidean_heuristic_far ==
    [a \in Nodes |-> [b \in Nodes \cup {FarGoal} |-> Abs(a - b)]]
ZeroHeuristic_far == [a \in Nodes |-> [b \in Nodes \cup {FarGoal} |-> 0]]

InitFarGoal ==
    /\ astar \in {AStar_init(nf, h, ms, None) :
                     nf \in Graphs \cup {Shortcut},
                     h \in {euclidean_heuristic_far, ZeroHeuristic_far},
                     ms \in MaxStepsValues}
    /\ bidir = NoBidir
    /\ world = NoWorld
    /\ InitCall

NextFarGoal ==
    \/ \E s \in Nodes, g \in Nodes \cup {FarGoal} : AStar_get_path(s, g)
    \/ \E keep_running \in BOOLEAN : AStar_loop(keep_running)
    \/ AStar_relax
    \/ AStar_return

SpecFarGoal == InitFarGoal /\ [][NextFarGoal]_vars

\* ================================================================== claims
Min(a, b) == IF a < b THEN a ELSE b

RECURSIVE MinOver(_, _)
MinOver(seq, default) ==
    IF seq = <<>> THEN default ELSE Min(Head(seq), MinOver(Tail(seq), default))

\* one more edge: from the cheapest costs d over walks of at most k edges to those
\* over walks of at most k + 1 edges
Extend(graph, d) ==
    [n \in Nodes |->
        MinOver([m \in Nodes |->
                   MinOver([i \in 1..Len(graph[m]) |->
                              IF graph[m][i][1] = n /\ d[m] < Inf
                              THEN d[m] + graph[m][i][2] ELSE Inf], Inf)],
                d[n])]

\* the cheapest cost from src to every node over walks of at most k edges
RECURSIVE Cheapest(_, _, _)
Cheapest(graph, src, k) ==
    IF k = 0 THEN [n \in Nodes |-> IF n = src THEN 0 ELSE Inf]
    ELSE CHOOSE e \in {Extend(graph, d) : d \in {Cheapest(graph, src, k - 1)}} : TRUE

\* the true shortest-path cost from a to b, Inf when b is not reachable from a
Dist(graph, a, b) == Cheapest(graph, a, NumNodes)[b]

\* the nodes that walks of at most k edges from src reach
RECURSIVE ReachedWithin(_, _, _)
ReachedWithin(graph, src, k) ==
    IF k = 0 THEN {src}
    ELSE LET near == ReachedWithin(graph, src, k - 1)
         IN  near \cup (Nodes \cap UNION {{graph[m][i][1] : i \in 1..Len(graph[m])} : m \in near})

Reachable(graph, a, b) == b \in ReachedWithin(graph, a, NumNodes)

\* the heuristic never overestimates the cheapest remaining cost to the goal
Admissible(h, graph, goal) == \A n \in Nodes : h[n][goal] <= Dist(graph, n, goal)

\* the callables of the instance never raise
NoFault(e) == e.neighbor_func \in Graphs /\ e.heuristic \in Heuristics

Returned == pc = "idle" /\ outcome = "returned"

\* C1: with non-negative costs, an admissible heuristic, no max_steps, no max_cost
\* and no cancellation, a path AStar.get_path returns with is_complete = TRUE has
\* the true shortest-path cost from start to goal as its total_cost.
C1_CompletePathIsShortest ==
    (/\ Returned
     /\ NoFault(astar)
     /\ astar.max_steps = Inf /\ astar.max_cost = Inf /\ ~cancelled
     /\ Admissible(astar.heuristic, astar.neighbor_func, astar.goal)
     /\ result.is_complete)
    => result.total_cost = Dist(astar.neighbor_func, start, astar.goal)

\* C2: when goal is not reachable from start, AStar.get_path returns a path with
\* is_complete = FALSE, at least one node, and a last node reachable from start.
C2_UnreachableGoalFallback ==
    (Returned /\ ~Reachable(astar.neighbor_func, start, astar.goal))
    => /\ ~result.is_complete
       /\ result.nodes # <<>>
       /\ Reachable(astar.neighbor_func, start, Last(result.nodes))

\* an unreachable goal, and a returned path that leaves start
C2_Witness ==
    /\ Returned
    /\ ~Reachable(astar.neighbor_func, start, astar.goal)
    /\ Len(result.nodes) >= 2

\* the goal of the last get_path call, on whichever engine was constructed
Goal == IF bidir = NoBidir THEN astar.goal ELSE bidir.goal

\* C3: get_path(X, X), on AStar and on BidirAStar and under every bound and
\* cancellation, returns nodes = [X], cum_costs = [0] and is_complete = TRUE.
C3_ZeroLengthPath ==
    (Returned /\ start = Goal)
    => /\ result.nodes = <<start>>
       /\ result.cum_costs = <<0>>
       /\ result.is_complete

\* BidirAStar.get_path(X, X) that took its forward step and met at X
C3_Witness ==
    /\ Returned
    /\ bidir # NoBidir
    /\ start = bidir.goal
    /\ bidir.middle_node = start
    /\ steps = 1
    /\ result.nodes = <<start>>

\* C4: when BidirAStar.get_path has found a middle node m, the path it builds has
\* total_cost = forward g-score of m + backward g-score of m, as many cum_costs as
\* nodes, and m at the splice point with a different node before and after it.
C4_Stitching ==
    (pc = "done" /\ bidir.middle_node # None)
    => LET m == bidir.middle_node
           path == BidirAStar_build_path(bidir)
           k == Len(build_chain(bidir.from_start, m))
       IN  /\ path.total_cost = g_scores_get(bidir.from_start, m) + g_scores_get(bidir.from_goal, m)
           /\ Len(path.nodes) = Len(path.cum_costs)
           /\ k <= Len(path.nodes)
           /\ path.nodes[k] = m
           /\ (k > 1 => path.nodes[k - 1] # m)
           /\ (k < Len(path.nodes) => path.nodes[k + 1] # m)

\* a middle node strictly between start and goal
C4_Witness ==
    /\ pc = "done"
    /\ bidir.middle_node # None
    /\ bidir.middle_node \notin {start, bidir.goal}
    /\ Len(build_chain(bidir.from_start, bidir.middle_node)) >= 2
    /\ Len(build_chain(bidir.from_goal, bidir.middle_node)) >= 2

\* a freshly constructed AStar with the configuration of e
FreshAStar(e) == AStar_init(e.neighbor_func, e.heuristic, e.max_steps, e.max_cost)

\* the loop of AStar.get_path from engine state e, with a run_limit that turns
\* false once limit steps are done
RECURSIVE RunLoop(_, _, _)
RunLoop(e, steps_, limit) ==
    IF AStar_while(e, steps_, steps_ < limit)
    THEN RunLoop(AStar_step(e), steps_ + 1, limit)
    ELSE e

\* what get_path(start_, goal_) returns and counts on a fresh instance configured as e
FreshGetPath(e, start_, goal_, limit) ==
    LET f == RunLoop(AStar_setup(FreshAStar(e), start_, goal_), 0, limit)
    IN  [path |-> AStar_build_path(f, f.closest), stats |-> f.stats]

\* C5: what get_path(s2, g2) returns (nodes, cum_costs, is_complete) and counts
\* (stats.nodes_evaluated) on an AStar instance that served earlier calls is what it
\* returns and counts on a freshly constructed instance with the same configuration
\* and the same run_limit answers.
C5_ReuseEqualsFresh ==
    Returned
    => LET fresh == FreshGetPath(astar, start, astar.goal, IF cancelled THEN steps ELSE Inf)
       IN  /\ result = fresh.path
           /\ astar.stats = fresh.stats

\* a call on a used instance that evaluated several nodes and returned a path
C5_Witness ==
    /\ Returned
    /\ reused
    /\ astar.stats.nodes_evaluated >= 2
    /\ Len(result.nodes) >= 2

\* the open set, the g-score table and the predecessor map of e are empty
Cleared(e) ==
    /\ e.open_set.heap = <<>>
    /\ e.open_set.set = {}
    /\ DOMAIN e.g_scores = {}
    /\ DOMAIN e.came_from = {}

\* C6: after get_path has returned, however its loop ended, the open set, the
\* g-score table and the predecessor map of the AStar instance are empty, and so are
\* those of both searches of the BidirAStar instance.
C6_ClearedAfterReturn ==
    Returned => /\ Cleared(astar)
                /\ Cleared(bidir.from_start)
                /\ Cleared(bidir.from_goal)

\* BidirAStar.get_path returned after both searches had discovered nodes and met
C6_Witness ==
    /\ Returned
    /\ bidir # NoBidir
    /\ bidir.middle_node # None
    /\ steps >= 3
    /\ Len(result.nodes) >= 3

\* C7: when neighbor_func or heuristic raises during AStar.get_path, the call in
\* _setup included, the open set, the g-score table and the predecessor map are
\* empty once the exception has left get_path.
C7_ClearedAfterRaise ==
    (pc = "idle" /\ outcome = "raised") => Cleared(astar)

\* C8: with max_steps = N, stats.nodes_evaluated of an AStar.get_path call never
\* exceeds N.
C8_MaxStepsBoundsEvaluated ==
    (outcome # "none") => astar.stats.nodes_evaluated <= astar.max_steps

\* the loop of AStar.get_path ended on its step bound, with nodes left to evaluate
C8_Witness ==
    /\ pc = "done"
    /\ is_searching(astar)
    /\ steps = astar.max_steps
    /\ astar.stats.nodes_evaluated = MaxStepsBound

\* C9: with max_steps = N, the steps BidirAStar.get_path takes in both directions
\* together (stats.nodes_evaluated) never exceed N.
C9_BidirMaxStepsBoundsEvaluated ==
    (outcome # "none")
    => bidir.from_start.stats.nodes_evaluated + bidir.from_goal.stats.nodes_evaluated
       <= bidir.max_steps

\* the pass of the neighbour loop about to run computes an f-score: nothing raises
\* and the candidate g-score improves on the neighbour's
ComputesF ==
    /\ pc = "step"
    /\ ~yield_raises(Head(pairs))
    /\ ~relax_raises(astar, Head(pairs)[1], Head(pairs)[2])
    /\ g_scores_get(astar, astar.current) + Head(pairs)[2] < g_scores_get(astar, Head(pairs)[1])

\* the f-score that pass computes (line 97)
CandidateF ==
    g_scores_get(astar, astar.current) + Head(pairs)[2]
    + astar.heuristic[Head(pairs)[1]][astar.goal]

\* C10: with max_cost = C, every node a relaxation inserts into the open set has
\* f = g + heuristic(node, goal) <= C at insertion, and a candidate whose f exceeds C
\* leaves the g-score table, the predecessor map and the open set unchanged.
C10_MaxCostPrunes ==
    [][ComputesF =>
          /\ \A n \in astar'.open_set.set \ astar.open_set.set :
                /\ g_scores_get(astar', n) + astar.heuristic[n][astar.goal] <= astar.max_cost
                /\ \E i \in 1..Len(astar'.open_set.heap) :
                      /\ astar'.open_set.heap[i].item = n
                      /\ astar'.open_set.heap[i].priority <= astar.max_cost
                      /\ astar'.open_set.heap[i].priority
                         = g_scores_get(astar', n) + astar.heuristic[n][astar.goal]
          /\ (CandidateF > astar.max_cost =>
                /\ astar'.g_scores = astar.g_scores
                /\ astar'.came_from = astar.came_from
                /\ astar'.open_set = astar.open_set)]_vars

\* a pass of the neighbour loop about to prune an improving candidate
C10_Witness ==
    /\ ComputesF
    /\ astar.max_cost = MaxCostBound
    /\ CandidateF > astar.max_cost

\* C11: in AStar.get_path a step is taken only after run_limit has been consulted and
\* has answered true; once it answers false no further step is taken (the engine and
\* the step count stay as they are) and get_path returns, without raising, the path
\* from start to the closest node recorded so far.
C11_CancelStopsAndReturnsClosest ==
    [][/\ (pc = "loop" /\ steps' # steps => ~cancelled')
       /\ (cancelled' /\ pc = "loop"
             => pc' = "done" /\ astar' = astar /\ steps' = steps /\ popped' = popped)
       /\ (cancelled /\ pc = "done"
             => /\ outcome' = "returned"
                /\ result' = AStar_build_path(astar, astar.closest)
                /\ Head(result'.nodes) = start
                /\ Last(result'.nodes) = astar.closest
                /\ astar'.stats = astar.stats
                /\ popped' = popped)]_vars

\* a call cancelled after it had moved the closest node away from start, returned
C11_Witness ==
    /\ Returned
    /\ cancelled
    /\ steps >= 2
    /\ Len(result.nodes) >= 2
    /\ ~result.is_complete

\* two cells are one 4-connected step apart
Adjacent(a, b) == Abs(Row(a) - Row(b)) + Abs(Col(a) - Col(b)) = 1

\* the cells of near and the open cells one 4-connected step from them
Grow(obstacles, near) ==
    near \cup {c \in GridCells \ obstacles : \E n \in near : Adjacent(c, n)}

\* the number of steps after which the cells near = those within k steps of the
\* origin grow to hold b, None when they stop growing before
RECURSIVE RouteSearch(_, _, _, _)
RouteSearch(obstacles, near, b, k) ==
    IF b \in near THEN k
    ELSE CHOOSE r \in {IF next = near THEN None ELSE RouteSearch(obstacles, next, b, k + 1) :
                          next \in {Grow(obstacles, near)}} : TRUE

\* the length of a shortest 4-connected obstacle-free route from a to b, None
\* when there is none
RouteLength(obstacles, a, b) == RouteSearch(obstacles, {a}, b, 0)

\* a get_path call between open cells of a 4-connected grid, returned
GridCallReturned ==
    /\ Returned
    /\ ~world.diag_allowed
    /\ start \notin world.obstacles
    /\ astar.goal \notin world.obstacles

LexLess(a, b) == a[1] < b[1] \/ (a[1] = b[1] /\ a[2] < b[2])

\* the nodes pop() returned during the last call
PoppedNodes == {popped[i][1] : i \in DOMAIN popped}

\* the tuple (heuristic(node, goal), g-score) of the i-th pop, and that of start
PoppedDist(i) == <<astar.heuristic[popped[i][1]][astar.goal], popped[i][2]>>
StartDist == <<astar.heuristic[start][astar.goal], 0>>

\* C13: when AStar.get_path returns without the goal having been popped, the path
\* ends at start or at a popped node whose tuple (heuristic(node, goal), g-score at
\* its pop) is lexicographically minimal among start's and those of all pops; with
\* an unreachable goal and no bounds it ends at a reachable node that minimises
\* (heuristic to goal, cheapest cost from start).
C13_FallbackIsClosest ==
    (Returned /\ astar.goal \notin PoppedNodes)
    => LET end == Last(result.nodes)
       IN  /\ \/ /\ end = start
                 /\ \A j \in DOMAIN popped : ~LexLess(PoppedDist(j), StartDist)
              \/ \E i \in DOMAIN popped :
                    /\ popped[i][1] = end
                    /\ ~LexLess(StartDist, PoppedDist(i))
                    /\ \A j \in DOMAIN popped : ~LexLess(PoppedDist(j), PoppedDist(i))
           /\ (/\ NoFault(astar)
               /\ astar.max_steps = Inf /\ astar.max_cost = Inf /\ ~cancelled)
              => \A dist \in {Cheapest(astar.neighbor_func, start, NumNodes)} :
                    dist[astar.goal] = Inf
                    => /\ dist[end] < Inf
                       /\ \A n \in Nodes :
                             dist[n] < Inf
                             => ~LexLess(<<astar.heuristic[n][astar.goal], dist[n]>>,
                                         <<astar.heuristic[end][astar.goal], dist[end]>>)

\* an unreachable goal, several nodes popped, and a path that ends away from start
C13_Witness ==
    /\ Returned
    /\ NoFault(astar)
    /\ ~Reachable(astar.neighbor_func, start, astar.goal)
    /\ astar.max_steps = Inf /\ astar.max_cost = Inf /\ ~cancelled
    /\ Len(popped) >= 3
    /\ Last(result.nodes) # start

\* C14: an AStar or a BidirAStar constructed with a negative max_steps never gets as
\* far as a get_path call that returns a result: construction fails.
C14_NegativeMaxStepsRejected ==
    Returned => (astar.max_steps >= 0 /\ bidir.max_steps >= 0)

\* a BidirAStar run with stop_if_no_path = TRUE whose backward search has emptied its
\* open set, no middle node found
BackwardExhausted ==
    /\ outcome = "running"
    /\ bidir.stop_if_no_path
    /\ is_empty(bidir.from_goal.open_set)
    /\ bidir.middle_node = None

\* C15 as stated: with stop_if_no_path = TRUE, once the backward search has exhausted
\* its open set without a middle node, no further step is executed in either
\* direction.
C15_NoStepAfterBackwardExhaustion ==
    [][BackwardExhausted => steps' = steps]_vars

\* C15, amended: with stop_if_no_path = TRUE, once the backward search has exhausted
\* its open set without a middle node, the backward search takes no further step and
\* the forward search at most the one step of the next iteration; when the backward
\* half then finds the backward search exhausted the loop ends at once, and get_path
\* returns the path from start to the closest node the forward search has recorded.
C15_StopsWhenExhaustionIsNoticed ==
    [][BackwardExhausted
         => /\ bidir'.from_goal.stats = bidir.from_goal.stats
            /\ (pc = "loop" => /\ steps' <= steps + 1
                                /\ pc' \in {"back", "done"})
            /\ (pc = "back" => pc' = "done" /\ steps' = steps /\ bidir' = bidir)
            /\ (pc = "done" /\ bidir.middle_node = None
                  => result' = AStar_build_path(bidir.from_start, bidir.from_start.closest))]_vars

\* the backward half finds the backward search exhausted, after the forward search
\* took a step of its own
C15_Witness ==
    /\ pc = "back"
    /\ BackwardExhausted
    /\ bidir.from_goal.stats.nodes_evaluated >= 1
    /\ bidir.from_start.stats.nodes_evaluated >= bidir.from_goal.stats.nodes_evaluated + 1
    /\ bidir.from_start.closest # start

\* C16 as stated: when BidirAStar.get_path ends without a middle node, the path it
\* returns is the forward search's path to its closest node and is_complete = FALSE.
C16_NoMiddleIsIncomplete ==
    (pc = "done" /\ bidir # NoBidir /\ bidir.middle_node = None)
    => LET path == BidirAStar_build_path(bidir)
       IN  /\ path = AStar_build_path(bidir.from_start, bidir.from_start.closest)
           /\ ~path.is_complete

\* C16, amended: when BidirAStar.get_path ends without a middle node, the path it
\* returns is the forward search's path from start to its closest node; it has
\* is_complete = FALSE unless start = goal and no step was taken, where it is [start]
\* with is_complete = TRUE.
C16_NoMiddleIsForwardPath ==
    (pc = "done" /\ bidir # NoBidir /\ bidir.middle_node = None)
    => LET path == BidirAStar_build_path(bidir)
       IN  /\ path = AStar_build_path(bidir.from_start, bidir.from_start.closest)
           /\ Head(path.nodes) = start
           /\ Last(path.nodes) = bidir.from_start.closest
           /\ (path.is_complete <=> (start = bidir.goal /\ steps = 0))
           /\ (path.is_complete => path.nodes = <<start>>)

\* the loop ended without a middle node after steps in both directions, the forward
\* search's closest node away from start
C16_Witness ==
    /\ pc = "done"
    /\ bidir # NoBidir
    /\ bidir.middle_node = None
    /\ bidir.from_goal.stats.nodes_evaluated >= 1
    /\ bidir.from_start.closest # start

\* C17: stats.nodes_evaluated is exactly the number of nodes pop() returned during
\* the call, nothing carried over from earlier calls: for AStar during and after every
\* call, for BidirAStar (forward pops plus backward pops) after every call that
\* returned.
C17_StatsCountPops ==
    /\ (bidir = NoBidir /\ outcome # "none")
          => astar.stats.nodes_evaluated = Len(popped)
    /\ (bidir # NoBidir /\ Returned)
          => /\ bidir.stats.nodes_evaluated = Len(popped)
             /\ bidir.from_start.stats.nodes_evaluated + bidir.from_goal.stats.nodes_evaluated
                = Len(popped)

\* a BidirAStar instance used before, and a call on it that popped in both directions
C17_Witness ==
    /\ Returned
    /\ reused
    /\ bidir # NoBidir
    /\ bidir.from_start.stats.nodes_evaluated >= 2
    /\ bidir.from_goal.stats.nodes_evaluated >= 1
    /\ bidir.stats.nodes_evaluated = Len(popped)

\* C18 as stated: within one AStar search run every node is popped at most once.
C18_PoppedAtMostOnce ==
    (bidir = NoBidir)
    => \A i, j \in DOMAIN popped : popped[i][1] = popped[j][1] => i = j

\* C18, amended: within one AStar search run a node is in the open set at most once
\* at any time; a node that was popped is inserted again when a later relaxation finds
\* a strictly cheaper path to it, so a node can be popped several times, each time
\* with a strictly lower g-score than at its pop before.
C18_PoppedAgainOnlyCheaper ==
    (bidir = NoBidir)
    => /\ Len(astar.open_set.heap) = Cardinality(astar.open_set.set)
       /\ {astar.open_set.heap[i].item : i \in DOMAIN astar.open_set.heap} = astar.open_set.set
       /\ \A i, j \in DOMAIN popped :
             (i < j /\ popped[i][1] = popped[j][1]) => popped[j][2] < popped[i][2]

\* a node popped for the second time
C18_Witness ==
    /\ bidir = NoBidir
    /\ \E i, j \in DOMAIN popped : i < j /\ popped[i][1] = popped[j][1]

\* a step of an AStar search run after which the run goes on
RunGoesOn == pc \in {"loop", "step"} /\ pc' # "idle"

\* C19: during one AStar search run (edge costs are non-negative) no entry of the
\* g-score table is removed or raised, the entry of start stays 0, and every write of
\* the neighbour loop strictly lowers the neighbour's entry, an absent one counting
\* as infinity.
C19_GScoresOnlyDecrease ==
    [][RunGoesOn
         => /\ DOMAIN astar.g_scores \subseteq DOMAIN astar'.g_scores
            /\ \A n \in DOMAIN astar'.g_scores : g_scores_get(astar', n) <= g_scores_get(astar, n)
            /\ g_scores_get(astar', start) = 0
            /\ (pc = "step" /\ astar' # astar
                  => /\ g_scores_get(astar', Head(pairs)[1]) < g_scores_get(astar, Head(pairs)[1])
                     /\ \A n \in DOMAIN astar.g_scores \ {Head(pairs)[1]} :
                           astar'.g_scores[n] = astar.g_scores[n])]_vars

\* the entry of a node has been lowered below the g-score it was popped with
C19_Witness ==
    /\ bidir = NoBidir
    /\ pc \in {"loop", "step"}
    /\ \E i \in DOMAIN popped :
          /\ popped[i][1] \in DOMAIN astar.g_scores
          /\ astar.g_scores[popped[i][1]] < popped[i][2]

\* following predecessor links from node n reaches start within k hops
RECURSIVE ReachesStart(_, _)
ReachesStart(n, k) ==
    \/ n = start
    \/ /\ k > 0
       /\ n \in DOMAIN astar.came_from
       /\ ReachesStart(astar.came_from[n], k - 1)

\* C20: in every state of an AStar search (edge costs are non-negative, zero-cost
\* edges and self-loops included) start has no predecessor entry and the predecessor
\* links from every node that has one lead to start without repeating a node.
C20_CameFromAcyclic ==
    /\ start \notin DOMAIN astar.came_from
    /\ \A n \in DOMAIN astar.came_from : ReachesStart(n, Cardinality(DOMAIN astar.came_from))

\* on the zero-cost cycle with its self-loop, a chain of predecessors through every node
C20_Witness ==
    /\ astar.neighbor_func = ZeroCycle
    /\ Cardinality(DOMAIN astar.came_from) >= 3
    /\ \E n \in DOMAIN astar.came_from : ~ReachesStart(n, 2)

\* the nodes that the search in the given direction has popped in this call
PoppedBy(direction) ==
    {popped[i][1] : i \in {j \in DOMAIN popped : popped[j][3] = direction}}

Opposite(direction) == IF direction = "forward" THEN "backward" ELSE "forward"

\* the search of BidirAStar b that runs in the given direction
Search(b, direction) == IF direction = "forward" THEN b.from_start ELSE b.from_goal

\* BidirAStar.get_path is inside its loop or about to return
InBidirRun == bidir # NoBidir /\ outcome = "running"

\* C21 as stated: a node is recorded as middle_node only when it was just popped by
\* one search and had already been popped by the opposite search.
C21_MiddlePoppedByBoth ==
    (InBidirRun /\ bidir.middle_node # None)
    => /\ popped # <<>>
       /\ Last(popped)[1] = bidir.middle_node
       /\ bidir.middle_node \in PoppedBy(Opposite(Last(popped)[3]))

\* C21, amended: a node is recorded as middle_node exactly when it was just popped by
\* one search and the opposite search has a g-score for it, that is, the opposite
\* search started from it or has reached it over an edge; the opposite search need
\* not have popped it.
C21_MiddleDiscoveredByOther ==
    (InBidirRun /\ popped # <<>>)
    => LET last == Last(popped)
           other == Search(bidir, Opposite(last[3]))
       IN  /\ bidir.middle_node # None
              => /\ pc = "done"
                 /\ last[1] = bidir.middle_node
                 /\ bidir.middle_node \in DOMAIN other.g_scores
           /\ bidir.middle_node = None => last[1] \notin DOMAIN other.g_scores

\* a middle node away from start and goal that the opposite search has reached but
\* not popped
C21_Witness ==
    /\ InBidirRun
    /\ pc = "done"
    /\ bidir.middle_node \notin {None, start, bidir.goal}
    /\ bidir.middle_node \notin PoppedBy(Opposite(Last(popped)[3]))

\* the search whose pop() comes next when the loop goes on
NextToPop ==
    IF bidir = NoBidir THEN astar
    ELSE Search(bidir, IF pc = "back" THEN "backward" ELSE "forward")

\* C22: in no get_path run of AStar or BidirAStar is pop() invoked on an empty open
\* set: every step pops from a non-empty open set, the forward search of BidirAStar
\* has a non-empty open set whenever the loop condition is tested, and
\* BidirAStar.get_path never ends with the exception of an empty queue.
C22_PopNeverOnEmpty ==
    [][/\ Len(popped') = Len(popped) + 1 => ~is_empty(NextToPop.open_set)
       /\ (InBidirRun /\ pc = "loop") => ~is_empty(bidir.from_start.open_set)
       /\ bidir # NoBidir => outcome' # "raised"]_vars

\* a BidirAStar run that ended because the forward search emptied its open set,
\* after steps in both directions
C22_Witness ==
    /\ InBidirRun
    /\ pc = "done"
    /\ bidir.middle_node = None
    /\ is_empty(bidir.from_start.open_set)
    /\ PoppedBy("backward") # {}
    /\ steps < bidir.max_steps
    /\ ~cancelled

\* how many steps the search in the given direction has taken in this call
StepsOf(direction) == Cardinality({i \in DOMAIN popped : popped[i][3] = direction})

\* C23: in BidirAStar.get_path the first step is a forward step, a backward step is
\* only taken immediately after a forward step, two forward steps in a row occur only
\* when the backward search is not searching any more and stop_if_no_path is false,
\* and forward steps minus backward steps is 0 or 1 while the backward search is
\* still searching.
C23_StepsAlternate ==
    InBidirRun
    => /\ popped # <<>> => popped[1][3] = "forward"
       /\ \A i \in DOMAIN popped :
             popped[i][3] = "backward" => (i > 1 /\ popped[i - 1][3] = "forward")
       /\ (\E i \in DOMAIN popped :
              i > 1 /\ popped[i][3] = "forward" /\ popped[i - 1][3] = "forward")
          => (~is_searching(bidir.from_goal) /\ ~bidir.stop_if_no_path)
       /\ is_searching(bidir.from_goal)
          => StepsOf("forward") - StepsOf("backward") \in {0, 1}

\* two forward steps in a row after a backward step
C23_Witness ==
    /\ InBidirRun
    /\ \E i \in DOMAIN popped :
          /\ i > 2
          /\ popped[i][3] = "forward"
          /\ popped[i - 1][3] = "forward"
          /\ popped[i - 2][3] = "backward"

\* C24 as stated: in BidirAStar.get_path the cancellation predicate is consulted
\* between every two consecutive steps, so once the predicate has turned false no
\* step of either direction is begun.
C24_NoStepOnceRunLimitIsFalse ==
    [][(bidir # NoBidir /\ ~RuntimeLimit_keep_running)
       => Len(popped') # Len(popped) + 1]_vars

\* C25: on every finite graph with non-negative integer edge costs (cycles and
\* zero-cost edges allowed) and any heuristic, a get_path call of AStar or BidirAStar
\* without max_steps, max_cost and cancellation eventually returns.
C25_GetPathReturns == (outcome = "running") ~> (outcome = "returned")

\* a call on the graph with the zero-cost cycle that went around the cycle and
\* returned
C25_Witness ==
    /\ outcome = "returned"
    /\ astar.neighbor_func = ZeroCycle
    /\ steps >= 4
    /\ \E i, j \in DOMAIN popped : i < j /\ popped[i][1] = 3 /\ popped[j][1] = 1

\* the costs neighbor_func reports for edges from node a to node b
EdgeCosts(graph, a, b) ==
    {graph[a][i][2] : i \in {j \in DOMAIN graph[a] : graph[a][j][1] = b}}

\* C26 as stated: for every path AStar.get_path returns, each incremental cost
\* cum_costs[i+1] - cum_costs[i] equals the cost neighbor_func reports for the edge
\* nodes[i] -> nodes[i+1].
C26_IncrementsAreEdgeCosts ==
    (Returned /\ bidir = NoBidir)
    => \A i \in 1..(Len(result.nodes) - 1) :
          (result.cum_costs[i + 1] - result.cum_costs[i])
             \in EdgeCosts(astar.neighbor_func, result.nodes[i], result.nodes[i + 1])

\* C27: every path AStar.get_path returns has nodes[0] = start and cum_costs[0] = 0
\* (sequences start at index 1 here), and every consecutive pair of its nodes is an
\* edge that neighbor_func yields for the first of the two, whatever ended the search.
C27_PathFollowsEdgesFromStart ==
    (Returned /\ bidir = NoBidir)
    => /\ result.nodes # <<>>
       /\ result.nodes[1] = start
       /\ result.cum_costs[1] = 0
       /\ \A i \in 1..(Len(result.nodes) - 1) :
             EdgeCosts(astar.neighbor_func, result.nodes[i], result.nodes[i + 1]) # {}

\* a returned path of two edges or more from a search that was cancelled
C27_Witness ==
    /\ Returned
    /\ bidir = NoBidir
    /\ Len(result.nodes) >= 3
    /\ ~result.is_complete
    /\ cancelled

Range(seq) == {seq[i] : i \in DOMAIN seq}

\* C28: a path BidirAStar.get_path returns after a middle node was found contains
\* no node twice: the forward chain start..middle and the backward chain
\* goal..middle share no node other than the middle node.
C28_StitchedPathHasNoRepeat ==
    (InBidirRun /\ pc = "done" /\ bidir.middle_node # None)
    => \A forward \in {build_chain(bidir.from_start, bidir.middle_node)},
          backward \in {build_chain(bidir.from_goal, bidir.middle_node)},
          path \in {BidirAStar_build_path(bidir)} :
          /\ Range(forward) \cap Range(backward) = {bidir.middle_node}
          /\ Cardinality(Range(path.nodes)) = Len(path.nodes)
          /\ Len(path.nodes) = Len(forward) + Len(backward) - 1

\* a stitched path through all the nodes, with the middle node inside
C28_Witness ==
    /\ InBidirRun
    /\ pc = "done"
    /\ bidir.middle_node \notin {None, start, bidir.goal}
    /\ Len(BidirAStar_build_path(bidir).nodes) >= 4

\* neighbor_func is symmetric: every edge has a reverse edge of the same cost
Symmetric(graph) ==
    \A n \in Nodes : \A i \in DOMAIN graph[n] :
        \E j \in DOMAIN graph[graph[n][i][1]] :
            graph[graph[n][i][1]][j] = <<n, graph[n][i][2]>>

\* a BidirAStar call on an undirected graph in which goal is reachable from start
UndirectedReachable ==
    /\ bidir # NoBidir
    /\ outcome \in {"running", "returned"}
    /\ Symmetric(bidir.from_start.neighbor_func)
    /\ Reachable(bidir.from_start.neighbor_func, start, bidir.goal)

\* C29: on every finite undirected graph with non-negative costs in which goal is
\* reachable from start, BidirAStar.get_path without max_steps, max_cost and
\* cancellation, for either value of stop_if_no_path, eventually records a middle
\* node and returns a path with is_complete = TRUE from start to goal.
C29_UndirectedReachableIsComplete ==
    /\ []((UndirectedReachable /\ pc = "done") => bidir.middle_node # None)
    /\ []((UndirectedReachable /\ Returned)
            => /\ bidir.middle_node # None
               /\ result.is_complete
               /\ Head(result.nodes) = start
               /\ Last(result.nodes) = bidir.goal)
    /\ (UndirectedReachable /\ outcome = "running")
          ~> (Returned /\ result.is_complete /\ bidir.middle_node # None)

\* a complete path across the ring, met in the middle, with stop_if_no_path set
C29_Witness ==
    /\ UndirectedReachable
    /\ Returned
    /\ bidir.from_start.neighbor_func = Ring
    /\ bidir.stop_if_no_path
    /\ result.is_complete
    /\ Len(result.nodes) >= 3
    /\ bidir.middle_node \notin {start, bidir.goal}

\* C30: on every finite graph with non-negative costs in which goal is reachable
\* from start, AStar.get_path without max_steps, max_cost and cancellation returns
\* a path with is_complete = TRUE, for any heuristic.
C30_ReachableGoalIsFound ==
    /\ []((Returned /\ bidir = NoBidir
             /\ Reachable(astar.neighbor_func, start, astar.goal))
            => (result.is_complete /\ Last(result.nodes) = astar.goal))
    /\ (outcome = "running" /\ bidir = NoBidir
          /\ Reachable(astar.neighbor_func, start, astar.goal))
          ~> (Returned /\ result.is_complete)

\* a complete path found under a heuristic that is not admissible, after a pop of
\* a node that is not on it
C30_Witness ==
    /\ Returned
    /\ bidir = NoBidir
    /\ result.is_complete
    /\ ~Admissible(astar.heuristic, astar.neighbor_func, astar.goal)
    /\ Len(result.nodes) >= 3
    /\ PoppedNodes \ Range(result.nodes) # {}

====
